---- MODULE Spec2Model ----
(***************************************************************************)
(* arcHive library management: the transaction / member-limit subsystem.   *)
(*                                                                         *)
(* State: the SQLite tables books, members, member_limits and transactions *)
(* (src/src/models/database.py), the wall clock, the offset of the local   *)
(* time zone from UTC, and the outcome of the last call; and the two       *)
(* tables Books and Transactions of the legacy database that the Tk        *)
(* screens use through ui/db_operations.py.                                *)
(*                                                                         *)
(* Time.  The clock counts ticks; a day has TicksPerDay ticks.  SQLite's   *)
(* CURRENT_TIMESTAMP and DATE('now') are UTC, Python's                     *)
(* datetime.datetime.now() is naive local time, so the program reads two   *)
(* clocks: now (UTC) and now + tz (local).  Money is counted in cents.     *)
(***************************************************************************)
EXTENDS Integers, Sequences, FiniteSets, TLC

VARIABLES
    books,          \* books.availability_status per book_id, or NoRow
    members,        \* members row per member_id, or NoRow
    member_limits,  \* member_limits row per member_id, or NoRow
    transactions,   \* transactions table; transaction_id = position
    now,            \* UTC instant, in ticks
    tz,             \* local time minus UTC, in ticks (fixed per deployment)
    last,           \* the last call: operation, arguments and result
    loan_start,     \* history: UTC instant each loan's period started
    calls_ok,       \* history: successful issue / return calls per member
    Books,          \* legacy database (ui/db_operations.py): Books, ID = position
    Transactions    \* legacy database: Transactions, TransactionID = position

vars == <<books, members, member_limits, transactions, now, tz, last,
          loan_start, calls_ok, Books, Transactions>>

-----------------------------------------------------------------------------
(* Program constants *)

BORROWING_PERIOD_DAYS == 14
\* settings.DAILY_LATE_FEE = 0.50, in cents
DAILY_LATE_FEE == 50
\* renew_book's hard-coded grace period
RENEWAL_GRACE_DAYS == 7
\* COALESCE(ml.max_books, 3) and member_limits.max_books DEFAULT 3
DEFAULT_MAX_BOOKS == 3

-----------------------------------------------------------------------------
(* Bounds of the model *)

\* the books of the catalogue
NumBooks == 4
\* the size to which the transactions table may grow under Spec
MaxTxns == 2

BookIds == 1..NumBooks
MemberIds == {1, 2}

\* the clock is read at two instants of a day (00:00 and 12:00 UTC)
Phases == {0, 1}
TicksPerDay == Cardinality(Phases)
\* the days on which the operator works
ObservedDays == {0, 15, 20}
ClockInstants == {d * TicksPerDay + p : d \in ObservedDays, p \in Phases}
\* deployments west of, at, and east of UTC (by half a day)
TzOffsets == {-1, 0, 1}
\* the optional days argument of renew_book; 0 stands for None
RenewDays == {0, 7, 30}
\* the longest loan for which DataHelper.calculate_late_fee is asked a fee
MaxFeeDays == 30
FeeInstants == 0..(MaxFeeDays * TicksPerDay + 1)
\* legacy database: the size to which its Transactions table may grow, the
\* ids of the books entered, the quantities entered for them, and the largest
\* Available at which a return is called
MaxLegacyTxns == 2
LegacyBookIds == {1, 2}
LegacyUserIds == {1}
Quantities == {0, 1, 2}
MaxAvailable == Cardinality(Quantities)

NoRow == [row |-> FALSE]

-----------------------------------------------------------------------------
(* Schema: src/src/models/database.py *)

BookStatuses == {"available", "issued", "maintenance"}
MemberStatuses == {"active", "suspended", "blocked", "expired"}
MemberTypes == {"Student", "Faculty", "Staff", "Senior Citizen", "General", "Premium"}

BookRow(status) == [row |-> TRUE, availability_status |-> status]

MemberRow(type, active) ==
    [row |-> TRUE, member_type |-> type, is_active |-> active]

\* a member_limits row with the column defaults of the schema
LimitsRow(max_books, status) ==
    [row |-> TRUE, max_books |-> max_books, current_issues |-> 0,
     total_issued |-> 0, total_returned |-> 0, late_returns |-> 0,
     member_status |-> status, fine_balance |-> 0]

\* a transactions row as INSERT INTO transactions (book_id, member_id) makes it:
\* issue_date DEFAULT CURRENT_TIMESTAMP (UTC), return_date NULL (-1 here),
\* status DEFAULT 'issued', late_fee DEFAULT 0.00
NULL == 0 - 1
TxnRow(book_id, member_id, utc) ==
    [book_id |-> book_id, member_id |-> member_id, issue_date |-> utc,
     return_date |-> NULL, status |-> "issued", late_fee |-> 0]

\* Member._get_default_book_limit
DefaultBookLimit(member_type) ==
    CASE member_type = "Student" -> 3
      [] member_type = "Faculty" -> 10
      [] member_type = "Staff" -> 5
      [] member_type = "Senior Citizen" -> 5
      [] member_type = "General" -> 3
      [] member_type = "Premium" -> 15
      [] OTHER -> 3

-----------------------------------------------------------------------------
(* The store and the two clocks *)

\* the four tables as one value: what a connection reads and writes
Db == [books |-> books, members |-> members,
       member_limits |-> member_limits, transactions |-> transactions]

\* sqlite3's connection context manager: commit when the block ends normally
Commit(snapshot, working) == working

\* a connection in autocommit mode: the writes made before the error stay
Rollback_KeepsWrites(snapshot, working) == working

\* sqlite3's connection context manager: rollback when an sqlite3.Error
\* leaves the block
Rollback(snapshot, working) == snapshot

\* datetime.datetime.now(): naive local time
LocalNow == now + tz

\* SQLite DATE(ts): the calendar day of a timestamp
SqlDate(ts) == ts \div TicksPerDay

\* DataHelper.calculate_days_between: timedelta.days, which floors
calculate_days_between(start_date, end_date) ==
    (end_date - start_date) \div TicksPerDay

\* the fee capped at five late days
calculate_late_fee_Capped(issue_date, return_date) ==
    LET days_issued == calculate_days_between(issue_date, return_date)
    IN  IF days_issued > BORROWING_PERIOD_DAYS + 5
        THEN 5 * DAILY_LATE_FEE
        ELSE IF days_issued > BORROWING_PERIOD_DAYS
        THEN (days_issued - BORROWING_PERIOD_DAYS) * DAILY_LATE_FEE
        ELSE 0

\* DataHelper.calculate_late_fee
calculate_late_fee(issue_date, return_date) ==
    LET days_issued == calculate_days_between(issue_date, return_date)
    IN  IF days_issued > BORROWING_PERIOD_DAYS
        THEN (days_issued - BORROWING_PERIOD_DAYS) * DAILY_LATE_FEE
        ELSE 0

Max(a, b) == IF a >= b THEN a ELSE b

IssuedTxns(txns) == {i \in DOMAIN txns : txns[i].status = "issued"}

-----------------------------------------------------------------------------
(* Transaction.issue_book *)

\* the check rejects only books under maintenance
IsAvailable_AcceptsIssued(status) == status # "maintenance"

\* the check rejects only books on loan
IsAvailable_AcceptsMaintenance(status) == status # "issued"

\* book[0] != 'available' is refused
IsAvailable(status) == status = "available"

\* the query without its "AND m.is_active = 1"
SelectMemberWithLimits_AnyMember(db, member_id) ==
    LET m == db.members[member_id]
        ml == db.member_limits[member_id]
    IN  IF m.row
        THEN [row |-> TRUE,
              max_books |-> IF ml.row THEN ml.max_books ELSE DEFAULT_MAX_BOOKS,
              current_issues |-> IF ml.row THEN ml.current_issues ELSE 0,
              member_status |-> IF ml.row THEN ml.member_status ELSE "active"]
        ELSE NoRow

\* members LEFT JOIN member_limits WHERE member_id = ? AND is_active = 1,
\* with the COALESCE defaults for a missing member_limits row
SelectMemberWithLimits(db, member_id) ==
    LET m == db.members[member_id]
        ml == db.member_limits[member_id]
    IN  IF m.row /\ m.is_active = 1
        THEN [row |-> TRUE,
              max_books |-> IF ml.row THEN ml.max_books ELSE DEFAULT_MAX_BOOKS,
              current_issues |-> IF ml.row THEN ml.current_issues ELSE 0,
              member_status |-> IF ml.row THEN ml.member_status ELSE "active"]
        ELSE NoRow

\* current_issues > max_books: off by one
LimitReached_Strict(current_issues, max_books) == current_issues > max_books

\* the limit check left out
LimitReached_Never(current_issues, max_books) == FALSE

\* current_issues >= max_books
LimitReached(current_issues, max_books) == current_issues >= max_books

\* DATE(issue_date, '+N days') < DATE('now')
SqlOverdue(issue_date, utc) ==
    SqlDate(issue_date) + BORROWING_PERIOD_DAYS < SqlDate(utc)

\* SELECT COUNT(*) FROM transactions WHERE member_id = ? AND status = 'issued'
\* AND DATE(issue_date, '+N days') < DATE('now')
OverdueCount(db, member_id, utc) ==
    Cardinality({i \in IssuedTxns(db.transactions) :
                    /\ db.transactions[i].member_id = member_id
                    /\ SqlOverdue(db.transactions[i].issue_date, utc)})

\* the validation sequence; "ok" when every check passes
IssueChecks(db, book_id, member_id, utc) ==
    LET book == db.books[book_id]
        member_data == SelectMemberWithLimits(db, member_id)
    IN  IF ~book.row THEN "book_not_found"
        ELSE IF ~IsAvailable(book.availability_status) THEN "book_not_available"
        ELSE IF ~member_data.row THEN "member_not_found"
        ELSE IF member_data.member_status # "active" THEN "member_not_active"
        ELSE IF LimitReached(member_data.current_issues, member_data.max_books)
             THEN "limit_reached"
        ELSE IF OverdueCount(db, member_id, utc) > 0 THEN "has_overdue"
        ELSE "ok"

\* the UPDATE of books left out
SetBookStatus_Skipped(db, book_id, status) == db

\* UPDATE books SET availability_status = ? WHERE book_id = ?
SetBookStatus(db, book_id, status) ==
    IF db.books[book_id].row
    THEN [db EXCEPT !.books[book_id].availability_status = status]
    ELSE db

\* INSERT OR IGNORE INTO member_limits (member_id, max_books) VALUES (?, ?)
EnsureLimitsRow(db, member_id, max_books) ==
    IF db.member_limits[member_id].row
    THEN db
    ELSE [db EXCEPT !.member_limits[member_id] = LimitsRow(max_books, "active")]

\* total_issued not counted
IncrementIssue_CurrentOnly(ml) == [ml EXCEPT !.current_issues = @ + 1]

\* UPDATE member_limits SET current_issues = current_issues + 1,
\* total_issued = total_issued + 1
IncrementIssue(ml) ==
    [ml EXCEPT !.current_issues = @ + 1, !.total_issued = @ + 1]

UpdateLimits(db, member_id, ml) ==
    IF db.member_limits[member_id].row
    THEN [db EXCEPT !.member_limits[member_id] = ml]
    ELSE db

\* the store after the first k of issue_book's four writes
RECURSIVE IssueWrites(_, _, _, _, _, _)
IssueWrites(db, book_id, member_id, max_books, utc, k) ==
    IF k = 0 THEN db
    ELSE LET w == IssueWrites(db, book_id, member_id, max_books, utc, k - 1)
         IN  CASE k = 1 -> [w EXCEPT !.transactions =
                               Append(@, TxnRow(book_id, member_id, utc))]
               [] k = 2 -> SetBookStatus(w, book_id, "issued")
               [] k = 3 -> EnsureLimitsRow(w, member_id, max_books)
               [] OTHER -> UpdateLimits(w, member_id,
                               IncrementIssue(w.member_limits[member_id]))

\* fault = 0: every statement succeeds; fault = k in 1..4: the k-th write raises
\* sqlite3.Error; fault = 5: conn.commit() raises
IssueFaults == 0..5

issue_book(db, book_id, member_id, utc, fault) ==
    LET exit == IssueChecks(db, book_id, member_id, utc)
        max_books == SelectMemberWithLimits(db, member_id).max_books
    IN  IF exit # "ok" THEN [db |-> db, ok |-> FALSE, exit |-> exit]
        ELSE IF fault = 0
        THEN [db |-> Commit(db, IssueWrites(db, book_id, member_id, max_books, utc, 4)),
              ok |-> TRUE, exit |-> "issued"]
        ELSE [db |-> Rollback(db, IssueWrites(db, book_id, member_id, max_books,
                                              utc, IF fault > 4 THEN 4 ELSE fault - 1)),
              ok |-> FALSE, exit |-> "sqlite_error"]

Call(op, book_id, member_id, transaction_id, ok, late_fee, exit) ==
    [op |-> op, book_id |-> book_id, member_id |-> member_id,
     transaction_id |-> transaction_id, ok |-> ok, late_fee |-> late_fee,
     exit |-> exit]

Install(db) ==
    /\ books' = db.books
    /\ members' = db.members
    /\ member_limits' = db.member_limits
    /\ transactions' = db.transactions

\* rows: the size to which the transactions table may grow
IssueBook(book_id, member_id, fault, rows) ==
    LET r == issue_book(Db, book_id, member_id, now, fault)
    IN  /\ (r.exit \in {"issued", "sqlite_error"}) => Len(transactions) < rows
        /\ (r.exit \notin {"issued", "sqlite_error"}) => fault = 0
        /\ Install(r.db)
        /\ last' = Call("issue_book", book_id, member_id,
                        IF r.ok THEN Len(r.db.transactions) ELSE 0, r.ok, 0, r.exit)
        /\ loan_start' = IF r.ok THEN Append(loan_start, now) ELSE loan_start
        /\ calls_ok' = IF r.ok THEN [calls_ok EXCEPT ![member_id].issued = @ + 1]
                       ELSE calls_ok
        /\ UNCHANGED <<now, tz, Books, Transactions>>

-----------------------------------------------------------------------------
(* Transaction.return_book *)

\* the query without its "AND status = 'issued'"
ActiveTxns_AnyStatus(db, book_id, member_id) ==
    {i \in DOMAIN db.transactions :
        /\ db.transactions[i].book_id = book_id
        /\ db.transactions[i].member_id = member_id}

\* SELECT transaction_id, issue_date FROM transactions
\* WHERE book_id = ? AND member_id = ? AND status = 'issued'
ActiveTxns(db, book_id, member_id) ==
    {i \in IssuedTxns(db.transactions) :
        /\ db.transactions[i].book_id = book_id
        /\ db.transactions[i].member_id = member_id}

\* every return counted as late
WasLate_Always(late_fee) == TRUE

\* was_late = late_fee > 0
WasLate(late_fee) == late_fee > 0

\* the UPDATE without its "status = 'returned'"
CloseTxn_KeepsStatus(txn, utc, late_fee) ==
    [txn EXCEPT !.return_date = utc, !.late_fee = late_fee]

\* UPDATE transactions SET return_date = CURRENT_TIMESTAMP, status = 'returned',
\* late_fee = ? WHERE transaction_id = ?
CloseTxn(txn, utc, late_fee) ==
    [txn EXCEPT !.return_date = utc, !.status = "returned", !.late_fee = late_fee]

\* the two UPDATE member_limits statements of return_book
RecordReturn(ml, late_fee, was_late) ==
    IF was_late
    THEN [ml EXCEPT !.current_issues = Max(0, @ - 1),
                    !.total_returned = @ + 1,
                    !.late_returns = @ + 1,
                    !.fine_balance = @ + late_fee]
    ELSE [ml EXCEPT !.current_issues = Max(0, @ - 1),
                    !.total_returned = @ + 1]

\* the store after the first k of return_book's four writes
RECURSIVE ReturnWrites(_, _, _, _, _, _, _)
ReturnWrites(db, transaction_id, book_id, member_id, late_fee, utc, k) ==
    IF k = 0 THEN db
    ELSE LET w == ReturnWrites(db, transaction_id, book_id, member_id,
                               late_fee, utc, k - 1)
         IN  CASE k = 1 -> [w EXCEPT !.transactions[transaction_id] =
                               CloseTxn(@, utc, late_fee)]
               [] k = 2 -> SetBookStatus(w, book_id, "available")
               [] k = 3 -> EnsureLimitsRow(w, member_id, DEFAULT_MAX_BOOKS)
               [] OTHER -> UpdateLimits(w, member_id,
                               RecordReturn(w.member_limits[member_id],
                                            late_fee, WasLate(late_fee)))

ReturnFaults == 0..5

\* transaction_id: the row fetchone() yields, 0 when the query is empty;
\* local: datetime.datetime.now(); utc: CURRENT_TIMESTAMP
return_book(db, book_id, member_id, transaction_id, local, utc, fault) ==
    IF transaction_id = 0
    THEN [db |-> db, ok |-> FALSE, late_fee |-> 0, exit |-> "no_active_transaction"]
    ELSE LET issue_date == db.transactions[transaction_id].issue_date
             late_fee == calculate_late_fee(issue_date, local)
         IN  IF fault = 0
             THEN [db |-> Commit(db, ReturnWrites(db, transaction_id, book_id,
                                                  member_id, late_fee, utc, 4)),
                   ok |-> TRUE, late_fee |-> late_fee, exit |-> "returned"]
             ELSE [db |-> Rollback(db, ReturnWrites(db, transaction_id, book_id,
                                       member_id, late_fee, utc,
                                       IF fault > 4 THEN 4 ELSE fault - 1)),
                   ok |-> FALSE, late_fee |-> 0, exit |-> "sqlite_error"]

ReturnBook(book_id, member_id, fault) ==
    \E transaction_id \in IF ActiveTxns(Db, book_id, member_id) = {} THEN {0}
                          ELSE ActiveTxns(Db, book_id, member_id) :
        LET r == return_book(Db, book_id, member_id, transaction_id,
                             LocalNow, now, fault)
        IN  /\ (transaction_id = 0) => fault = 0
            /\ Install(r.db)
            /\ last' = Call("return_book", book_id, member_id, transaction_id,
                            r.ok, r.late_fee, r.exit)
            /\ calls_ok' = IF r.ok
                           THEN [calls_ok EXCEPT ![member_id].returned = @ + 1]
                           ELSE calls_ok
            /\ UNCHANGED <<now, tz, loan_start, Books, Transactions>>

-----------------------------------------------------------------------------
(* Transaction.renew_book *)

\* the query without its "AND t.status = 'issued'"
SelectRenewable_AnyStatus(db, transaction_id) ==
    IF transaction_id \in DOMAIN db.transactions
    THEN LET t == db.transactions[transaction_id]
             m == db.members[t.member_id]
             ml == db.member_limits[t.member_id]
         IN  IF m.row /\ m.is_active = 1
             THEN [row |-> TRUE, book_id |-> t.book_id, member_id |-> t.member_id,
                   issue_date |-> t.issue_date,
                   member_status |-> IF ml.row THEN ml.member_status ELSE "active"]
             ELSE NoRow
    ELSE NoRow

\* the query without its join on member_limits: every member reads 'active'
SelectRenewable_StatusIgnored(db, transaction_id) ==
    IF transaction_id \in IssuedTxns(db.transactions)
    THEN LET t == db.transactions[transaction_id]
             m == db.members[t.member_id]
         IN  IF m.row /\ m.is_active = 1
             THEN [row |-> TRUE, book_id |-> t.book_id, member_id |-> t.member_id,
                   issue_date |-> t.issue_date, member_status |-> "active"]
             ELSE NoRow
    ELSE NoRow

\* transactions JOIN members LEFT JOIN member_limits
\* WHERE transaction_id = ? AND status = 'issued' AND is_active = 1
SelectRenewable(db, transaction_id) ==
    IF transaction_id \in IssuedTxns(db.transactions)
    THEN LET t == db.transactions[transaction_id]
             m == db.members[t.member_id]
             ml == db.member_limits[t.member_id]
         IN  IF m.row /\ m.is_active = 1
             THEN [row |-> TRUE, book_id |-> t.book_id, member_id |-> t.member_id,
                   issue_date |-> t.issue_date,
                   member_status |-> IF ml.row THEN ml.member_status ELSE "active"]
             ELSE NoRow
    ELSE NoRow

\* days_issued > BORROWING_PERIOD_DAYS + 7
TooOverdueToRenew(days_issued) ==
    days_issued > BORROWING_PERIOD_DAYS + RENEWAL_GRACE_DAYS

RenewChecks(db, transaction_id, local) ==
    LET result == SelectRenewable(db, transaction_id)
    IN  IF ~result.row THEN "no_active_transaction"
        ELSE IF result.member_status # "active" THEN "member_not_active"
        ELSE IF TooOverdueToRenew(calculate_days_between(result.issue_date, local))
             THEN "too_overdue"
        ELSE "ok"

\* the UPDATE without its WHERE clause
SetIssueDate_AllLoans(db, transaction_id, new_issue_date) ==
    [db EXCEPT !.transactions =
        [i \in DOMAIN @ |-> [@[i] EXCEPT !.issue_date = new_issue_date]]]

\* the UPDATE left out: the renewal is reported and the date stays
SetIssueDate_Skipped(db, transaction_id, new_issue_date) == db

\* UPDATE transactions SET issue_date = ? WHERE transaction_id = ?
\* with new_issue_date = datetime.datetime.now().isoformat()
SetIssueDate(db, transaction_id, new_issue_date) ==
    [db EXCEPT !.transactions[transaction_id].issue_date = new_issue_date]

\* fault 1: the UPDATE raises; fault 2: conn.commit() raises
RenewFaults == 0..2

\* the new period is renewal_days long: the issue_date written is the day
\* from which BORROWING_PERIOD_DAYS end when renewal_days are over
renew_book_HonoursDays(db, transaction_id, days, local, fault) ==
    LET exit == RenewChecks(db, transaction_id, local)
        renewal_days == IF days = 0 THEN BORROWING_PERIOD_DAYS ELSE days
        new_issue_date ==
            local + (renewal_days - BORROWING_PERIOD_DAYS) * TicksPerDay
    IN  IF exit # "ok" THEN [db |-> db, ok |-> FALSE, exit |-> exit]
        ELSE IF fault = 0
        THEN [db |-> Commit(db, SetIssueDate(db, transaction_id, new_issue_date)),
              ok |-> TRUE, exit |-> "renewed"]
        ELSE [db |-> db, ok |-> FALSE, exit |-> "sqlite_error"]

\* days is accepted (renewal_days = days or BORROWING_PERIOD_DAYS) and not used
renew_book(db, transaction_id, days, local, fault) ==
    LET exit == RenewChecks(db, transaction_id, local)
    IN  IF exit # "ok" THEN [db |-> db, ok |-> FALSE, exit |-> exit]
        ELSE IF fault = 0
        THEN [db |-> Commit(db, SetIssueDate(db, transaction_id, local)),
              ok |-> TRUE, exit |-> "renewed"]
        ELSE [db |-> Rollback(db, IF fault > 1
                                  THEN SetIssueDate(db, transaction_id, local)
                                  ELSE db),
              ok |-> FALSE, exit |-> "sqlite_error"]

RenewBook(transaction_id, days, fault) ==
    LET r == renew_book(Db, transaction_id, days, LocalNow, fault)
    IN  /\ (r.exit \notin {"renewed", "sqlite_error"}) => fault = 0
        /\ Install(r.db)
        /\ last' = Call("renew_book", 0, 0, transaction_id, r.ok, 0, r.exit)
        /\ loan_start' = IF r.ok THEN [loan_start EXCEPT ![transaction_id] = now]
                         ELSE loan_start
        /\ UNCHANGED <<now, tz, calls_ok, Books, Transactions>>

-----------------------------------------------------------------------------
(* The reports of the Transaction model.  The rows are sets: their order is  *)
(* not part of the model.                                                    *)

\* transactions JOIN books WHERE status = 'issued'
IssuedWithBook(db) ==
    {i \in IssuedTxns(db.transactions) : db.books[db.transactions[i].book_id].row}

\* Transaction.get_issued_books: days_issued and is_overdue are computed in
\* Python from datetime.now()
get_issued_books(db, local) ==
    {LET days_issued == calculate_days_between(db.transactions[i].issue_date, local)
     IN  [transaction_id |-> i,
          days_issued |-> days_issued,
          is_overdue |-> days_issued > BORROWING_PERIOD_DAYS] :
     i \in IssuedWithBook(db)}

\* Transaction.get_overdue_books: the rows are selected by SQLite with
\* DATE(issue_date, '+N days') < DATE('now'), the calculated fields are
\* computed in Python from datetime.now()
get_overdue_books(db, utc, local) ==
    {LET issue_date == db.transactions[i].issue_date
         days_issued == calculate_days_between(issue_date, local)
     IN  [transaction_id |-> i,
          days_issued |-> days_issued,
          days_overdue |-> Max(days_issued - BORROWING_PERIOD_DAYS, 0),
          calculated_late_fee |-> calculate_late_fee(issue_date, local)] :
     i \in {j \in IssuedWithBook(db) :
                SqlOverdue(db.transactions[j].issue_date, utc)}}

\* int(julianday('now') - julianday(issue_date)): the difference of two
\* timestamps in days, truncated towards zero
JulianDays(issue_date, utc) ==
    IF utc >= issue_date
    THEN (utc - issue_date) \div TicksPerDay
    ELSE 0 - ((issue_date - utc) \div TicksPerDay)

\* Transaction.get_member_transaction_summary: NoRow stands for {}
get_member_transaction_summary(db, member_id, utc) ==
    LET m == db.members[member_id]
        ml == db.member_limits[member_id]
        max_books == IF ml.row THEN ml.max_books ELSE DEFAULT_MAX_BOOKS
        current_issues == IF ml.row THEN ml.current_issues ELSE 0
        member_status == IF ml.row THEN ml.member_status ELSE "active"
        issued_books ==
            {LET days_issued == JulianDays(db.transactions[i].issue_date, utc)
             IN  [transaction_id |-> i,
                  days_issued |-> days_issued,
                  is_overdue |-> days_issued > BORROWING_PERIOD_DAYS] :
             i \in {j \in IssuedWithBook(db) :
                        db.transactions[j].member_id = member_id}}
        overdue_count == Cardinality({r \in issued_books : r.is_overdue})
    IN  IF m.row /\ m.is_active = 1
        THEN [row |-> TRUE,
              max_books |-> max_books,
              current_issues |-> current_issues,
              member_status |-> member_status,
              overdue_count |-> overdue_count,
              can_issue_more |-> /\ current_issues < max_books
                                 /\ member_status = "active"
                                 /\ overdue_count = 0,
              available_slots |-> Max(0, max_books - current_issues),
              issued_books |-> issued_books]
        ELSE NoRow

-----------------------------------------------------------------------------
(* The Member and Book models: src/src/models/member.py, book.py.  Names,    *)
(* e-mail addresses and ISBNs are not part of the state: the calls are made  *)
(* with valid data that no other row uses.                                   *)

Result(db, ok, exit) == [db |-> db, ok |-> ok, exit |-> exit]

\* Member.add_member(member_data, member_id): the members row and, in the same
\* transaction, its member_limits row with the default of the member type
add_member(db, member_id, member_type) ==
    IF db.members[member_id].row THEN Result(db, FALSE, "member_id_exists")
    ELSE IF member_type \notin MemberTypes THEN Result(db, FALSE, "integrity_error")
    ELSE Result([db EXCEPT
                    !.members[member_id] = MemberRow(member_type, 1),
                    !.member_limits[member_id] =
                        LimitsRow(DefaultBookLimit(member_type), "active")],
                TRUE, "added")

\* the update also resets the quota to the default of the new type
update_member_ResetsQuota(db, member_id, member_type) ==
    IF db.members[member_id].row /\ db.members[member_id].is_active = 1
    THEN Result([db EXCEPT
                    !.members[member_id].member_type = member_type,
                    !.member_limits[member_id] =
                        IF @.row
                        THEN [@ EXCEPT !.max_books = DefaultBookLimit(member_type)]
                        ELSE @],
                TRUE, "updated")
    ELSE Result(db, FALSE, "member_not_found")

\* Member.update_member(member_id, {'member_type': ...}): UPDATE members only
update_member(db, member_id, member_type) ==
    IF db.members[member_id].row /\ db.members[member_id].is_active = 1
    THEN Result([db EXCEPT !.members[member_id].member_type = member_type],
                TRUE, "updated")
    ELSE Result(db, FALSE, "member_not_found")

\* the check left out: every member may be deactivated
CanDeleteMember_Always(db, member_id) == TRUE

\* Member._can_delete_member: no transaction of the member has status 'issued'
CanDeleteMember(db, member_id) ==
    {i \in IssuedTxns(db.transactions) :
        db.transactions[i].member_id = member_id} = {}

\* Member.delete_member: soft delete
delete_member(db, member_id) ==
    IF ~CanDeleteMember(db, member_id)
    THEN Result(db, FALSE, "has_active_transactions")
    ELSE IF db.members[member_id].row
    THEN Result([db EXCEPT !.members[member_id].is_active = 0], TRUE, "deactivated")
    ELSE Result(db, FALSE, "member_not_found")

\* Book.add_book with a custom book_id
add_book(db, book_id) ==
    IF db.books[book_id].row THEN Result(db, FALSE, "book_id_exists")
    ELSE Result([db EXCEPT !.books[book_id] = BookRow("available")], TRUE, "added")

\* Book.update_book: title, author, category, isbn
update_book(db, book_id) ==
    IF db.books[book_id].row THEN Result(db, TRUE, "updated")
    ELSE Result(db, FALSE, "book_not_found")

\* Book.delete_book: refused while the book is on loan; the DELETE fails on the
\* foreign key of transactions.book_id when any transaction names the book
delete_book(db, book_id) ==
    IF \E i \in IssuedTxns(db.transactions) : db.transactions[i].book_id = book_id
    THEN Result(db, FALSE, "currently_issued")
    ELSE IF ~db.books[book_id].row THEN Result(db, FALSE, "book_not_found")
    ELSE IF \E i \in DOMAIN db.transactions : db.transactions[i].book_id = book_id
    THEN Result(db, FALSE, "sqlite_error")
    ELSE Result([db EXCEPT !.books[book_id] = NoRow], TRUE, "deleted")

\* Book.update_availability: UPDATE books SET availability_status = ?
update_availability(db, book_id, status) ==
    IF status \notin BookStatuses THEN Result(db, FALSE, "invalid_status")
    ELSE IF db.books[book_id].row
    THEN Result([db EXCEPT !.books[book_id].availability_status = status],
                TRUE, "updated")
    ELSE Result(db, FALSE, "book_not_found")

\* a call of the Member or Book model and what it leaves behind
Admin(op, r, book_id, member_id) ==
    /\ Install(r.db)
    /\ last' = Call(op, book_id, member_id, 0, r.ok, 0, r.exit)
    /\ UNCHANGED <<now, tz, loan_start, calls_ok, Books, Transactions>>

AddMember(member_id, member_type) ==
    Admin("add_member", add_member(Db, member_id, member_type), 0, member_id)

UpdateMember(member_id, member_type) ==
    Admin("update_member", update_member(Db, member_id, member_type), 0, member_id)

DeleteMember(member_id) ==
    Admin("delete_member", delete_member(Db, member_id), 0, member_id)

AddBook(book_id) == Admin("add_book", add_book(Db, book_id), book_id, 0)

UpdateBook(book_id) == Admin("update_book", update_book(Db, book_id), book_id, 0)

DeleteBook(book_id) == Admin("delete_book", delete_book(Db, book_id), book_id, 0)

UpdateAvailability(book_id, status) ==
    Admin("update_availability", update_availability(Db, book_id, status),
          book_id, 0)

-----------------------------------------------------------------------------
(* DataHelper.calculate_late_fee, called by itself *)

\* return_date = NULL stands for None: the helper then reads datetime.now()
CalculateLateFee(issue_date, return_date) ==
    LET end_date == IF return_date = NULL THEN LocalNow ELSE return_date
    IN  /\ last' = [op |-> "calculate_late_fee", book_id |-> 0, member_id |-> 0,
                    transaction_id |-> 0, ok |-> TRUE,
                    late_fee |-> calculate_late_fee(issue_date, end_date),
                    exit |-> "", issue_date |-> issue_date,
                    return_date |-> end_date]
        /\ UNCHANGED <<books, members, member_limits, transactions, now, tz,
                       loan_start, calls_ok, Books, Transactions>>

-----------------------------------------------------------------------------
(* The legacy backend: src/ui/db_operations.py over the database of          *)
(* src/database/library_db.py.  Its connections do not enable foreign keys.  *)
(* Titles, authors and genres are not part of the state.                     *)

LegacyDb == [Books |-> Books, Transactions |-> Transactions]

\* date.today(): the local calendar day
Today == LocalNow \div TicksPerDay

\* add_book: INSERT INTO Books (..., Quantity, Available) VALUES (..., quantity,
\* quantity)
db_add_book(db, quantity) ==
    [db EXCEPT !.Books = Append(@, [Quantity |-> quantity, Available |-> quantity])]

\* update_book: UPDATE Books SET ..., Quantity = ?, Available = ? WHERE ID = ?
\* with quantity for both
db_update_book(db, book_id, quantity) ==
    IF book_id \in DOMAIN db.Books
    THEN [db EXCEPT !.Books[book_id] = [Quantity |-> quantity, Available |-> quantity]]
    ELSE db

\* a book may be borrowed whatever its Available
HasCopy_Always(db, book_id) == book_id \in DOMAIN db.Books

\* SELECT Available FROM Books WHERE ID = ?;  if book and book[0] > 0
HasCopy(db, book_id) ==
    book_id \in DOMAIN db.Books /\ db.Books[book_id].Available > 0

\* borrow_book(user_id, book_id)
borrow_book(db, user_id, book_id, today) ==
    IF HasCopy(db, book_id)
    THEN [db |-> [db EXCEPT
                     !.Transactions = Append(@, [UserID |-> user_id,
                                                 BookID |-> book_id,
                                                 IssueDate |-> today,
                                                 ReturnDate |-> NULL]),
                     !.Books[book_id].Available = @ - 1],
          ok |-> TRUE]
    ELSE [db |-> db, ok |-> FALSE]

\* UPDATE Books SET Available = Available + 1 WHERE ID = ?
Restock(db, book_id) ==
    IF book_id \in DOMAIN db.Books
    THEN [db EXCEPT !.Books[book_id].Available = @ + 1]
    ELSE db

\* return_book(transaction_id): the transaction is looked up by its id alone
db_return_book(db, transaction_id, today) ==
    IF transaction_id \in DOMAIN db.Transactions
    THEN [db |-> Restock([db EXCEPT !.Transactions[transaction_id].ReturnDate = today],
                         db.Transactions[transaction_id].BookID),
          ok |-> TRUE]
    ELSE [db |-> db, ok |-> FALSE]

\* a call of the legacy backend; available: what the book's Available read
\* before the call (NULL when the book has no row)
LegacyCall(op, user_id, book_id, transaction_id, ok, available) ==
    [op |-> op, book_id |-> book_id, member_id |-> user_id,
     transaction_id |-> transaction_id, ok |-> ok, late_fee |-> 0, exit |-> "",
     available |-> available]

AvailableOf(db, book_id) ==
    IF book_id \in DOMAIN db.Books THEN db.Books[book_id].Available ELSE NULL

Legacy(db, call) ==
    /\ Books' = db.Books
    /\ Transactions' = db.Transactions
    /\ last' = call
    /\ UNCHANGED <<books, members, member_limits, transactions, now, tz,
                   loan_start, calls_ok>>

DbAddBook(quantity) ==
    /\ Len(Books) < Cardinality(LegacyBookIds)
    /\ Legacy(db_add_book(LegacyDb, quantity),
              LegacyCall("db_operations.add_book", 0, Len(Books) + 1, 0, TRUE, NULL))

DbUpdateBook(book_id, quantity) ==
    Legacy(db_update_book(LegacyDb, book_id, quantity),
           LegacyCall("db_operations.update_book", 0, book_id, 0, TRUE,
                      AvailableOf(LegacyDb, book_id)))

BorrowBook(user_id, book_id) ==
    LET r == borrow_book(LegacyDb, user_id, book_id, Today)
    IN  /\ r.ok => Len(Transactions) < MaxLegacyTxns
        /\ Legacy(r.db, LegacyCall("borrow_book", user_id, book_id,
                                   IF r.ok THEN Len(r.db.Transactions) ELSE 0,
                                   r.ok, AvailableOf(LegacyDb, book_id)))

DbReturnBook(transaction_id) ==
    LET r == db_return_book(LegacyDb, transaction_id, Today)
        book_id == IF r.ok THEN Transactions[transaction_id].BookID ELSE 0
    IN  /\ r.ok => Books[book_id].Available < MaxAvailable
        /\ Legacy(r.db, LegacyCall("db_operations.return_book", 0, book_id,
                                   transaction_id, r.ok,
                                   AvailableOf(LegacyDb, book_id)))

-----------------------------------------------------------------------------
(* The clock *)

AdvanceTo(instants) ==
    /\ \E t \in instants : t > now /\ now' = t
    /\ last' = Call("advance", 0, 0, 0, TRUE, 0, "")
    /\ UNCHANGED <<books, members, member_limits, transactions, tz,
                   loan_start, calls_ok, Books, Transactions>>

-----------------------------------------------------------------------------
(* Initial states: a store with no loans, holding the books of a shelf and    *)
(* the members of a register.  Members are as add_member leaves them (an      *)
(* active Student with a fresh quota record); the last member may instead be  *)
(* missing, deactivated, carry a quota status other than 'active', or have no *)
(* member_limits row (a members table older than member_limits).  The last    *)
(* book may be missing or under maintenance.                                  *)

StandardMember == [member |-> MemberRow("Student", 1),
                   limits |-> LimitsRow(DefaultBookLimit("Student"), "active")]

\* a member of a members table older than member_limits
UnlimitedMember == [member |-> MemberRow("Faculty", 1), limits |-> NoRow]

MemberProfiles ==
    {StandardMember, UnlimitedMember,
     [member |-> NoRow, limits |-> NoRow],
     [member |-> MemberRow("Student", 0),
      limits |-> LimitsRow(DefaultBookLimit("Student"), "active")]}
    \cup {[member |-> MemberRow("Student", 1),
           limits |-> LimitsRow(DefaultBookLimit("Student"), s)] :
             s \in MemberStatuses \ {"active"}}

Last(S) == CHOOSE x \in S : \A y \in S : y <= x

InitMembers(register, profiles) ==
    {f \in [MemberIds -> MemberProfiles] :
        \A m \in MemberIds :
            /\ m \notin register => f[m] = [member |-> NoRow, limits |-> NoRow]
            /\ (m \in register /\ m # Last(register)) => f[m] = StandardMember
            /\ (m \in register /\ m = Last(register)) => f[m] \in profiles}

BookConditions == {BookRow("available"), BookRow("maintenance"), NoRow}

InitBooks(shelf, conditions) ==
    {f \in [BookIds -> BookConditions] :
        \A b \in BookIds :
            /\ b \notin shelf => f[b] = NoRow
            /\ (b \in shelf /\ b # Last(shelf)) => f[b] = BookRow("available")
            /\ (b \in shelf /\ b = Last(shelf)) => f[b] \in conditions}

InitStore(shelf, conditions, register, profiles, offsets) ==
    /\ books \in InitBooks(shelf, conditions)
    /\ \E f \in InitMembers(register, profiles) :
          /\ members = [m \in MemberIds |-> f[m].member]
          /\ member_limits = [m \in MemberIds |-> f[m].limits]
    /\ transactions = <<>>
    /\ now = 0
    /\ tz \in offsets
    /\ last = Call("init", 0, 0, 0, TRUE, 0, "")
    /\ loan_start = <<>>
    /\ calls_ok = [m \in MemberIds |-> [issued |-> 0, returned |-> 0]]
    /\ Books = <<>>
    /\ Transactions = <<>>

\* the calls an operator makes for the books of a shelf and the members of a
\* register, while the transactions table has at most rows rows; faults: the
\* statements that may raise sqlite3.Error; days: the values passed to renew_book
Calls(shelf, register, rows, faults, days) ==
    \/ \E b \in shelf, m \in register, fault \in IssueFaults \cap faults :
          IssueBook(b, m, fault, rows)
    \/ \E b \in shelf, m \in register, fault \in ReturnFaults \cap faults :
          ReturnBook(b, m, fault)
    \/ \E t \in 1..(rows + 1), d \in days, fault \in RenewFaults \cap faults :
          RenewBook(t, d, fault)

\* Spec: two books, two members, a UTC deployment, the operator at work on two
\* days, one of them late enough for a loan of the other to be overdue
SmallShelf == {1, 2}
WorkInstants == {d * TicksPerDay : d \in {0, 15}}
Init == InitStore(SmallShelf, BookConditions, MemberIds, MemberProfiles, {0})
Advance == AdvanceTo(WorkInstants)
Next == Calls(SmallShelf, MemberIds, MaxTxns, IssueFaults, RenewDays) \/ Advance
Spec == Init /\ [][Next]_vars

\* SpecQuota: every book on the shelf and one member, with room in the
\* transactions table for one loan more than a quota holds, all on one day
\* and with no statement failing
QuotaRegister == {1}
InitQuota == InitStore(BookIds, {BookRow("available")}, QuotaRegister,
                       {StandardMember}, {0})
NextQuota == Calls(BookIds, QuotaRegister, DEFAULT_MAX_BOOKS + 1, {0}, {0})
SpecQuota == InitQuota /\ [][NextQuota]_vars

\* SpecClock: two books and one member in every time zone, the clock read
\* twice a day, as many loans as the shelf has books, no statement failing
InitClock == InitStore(SmallShelf, {BookRow("available")}, QuotaRegister,
                       {StandardMember}, TzOffsets)
AdvanceClock == AdvanceTo(ClockInstants)
NextClock == Calls(SmallShelf, QuotaRegister, Cardinality(SmallShelf), {0}, {0})
                \/ AdvanceClock
SpecClock == InitClock /\ [][NextClock]_vars

\* SpecRenew: a store in which the member holds a loan made at instant 0, as
\* issue_book leaves it, and the member's quota status has since been set to
\* any value (no model of the program writes member_status: it is edited in
\* the database); every time zone; the operator at work on the last day a
\* loan may be renewed and on days after it
LateDays == {0, BORROWING_PERIOD_DAYS + RENEWAL_GRACE_DAYS,
             BORROWING_PERIOD_DAYS + RENEWAL_GRACE_DAYS + 1, 25}
RenewInstants == {d * TicksPerDay + p : d \in LateDays, p \in Phases}
FreshStore ==
    [books |-> [b \in BookIds |->
                   IF b \in SmallShelf THEN BookRow("available") ELSE NoRow],
     members |-> [m \in MemberIds |->
                   IF m \in QuotaRegister THEN StandardMember.member ELSE NoRow],
     member_limits |-> [m \in MemberIds |->
                   IF m \in QuotaRegister THEN StandardMember.limits ELSE NoRow],
     transactions |-> <<>>]
InitRenew ==
    \E s \in MemberStatuses :
        LET db == issue_book(FreshStore, 1, 1, 0, 0).db
        IN  /\ books = db.books
            /\ members = db.members
            /\ member_limits = [db.member_limits EXCEPT ![1].member_status = s]
            /\ transactions = db.transactions
            /\ now = 0
            /\ tz \in TzOffsets
            /\ last = Call("issue_book", 1, 1, 1, TRUE, 0, "issued")
            /\ loan_start = <<0>>
            /\ calls_ok = [m \in MemberIds |->
                              [issued |-> IF m = 1 THEN 1 ELSE 0, returned |-> 0]]
            /\ Books = <<>>
            /\ Transactions = <<>>
AdvanceRenew == AdvanceTo(RenewInstants)
NextRenew == Calls(SmallShelf, QuotaRegister, Cardinality(SmallShelf), {0}, {0})
                \/ AdvanceRenew
SpecRenew == InitRenew /\ [][NextRenew]_vars

\* SpecAdmin: the librarian's desk: the calls of the Member and Book models
\* for two books and two members of two types, interleaved with the loans of
\* the first member, on one day and with no statement failing
AdminTypes == {"Student", "Faculty"}
InitAdmin == InitStore(SmallShelf, {BookRow("available")}, QuotaRegister,
                       {StandardMember}, {0})
NextAdmin ==
    \/ Calls(SmallShelf, QuotaRegister, Cardinality(SmallShelf), {0}, {0})
    \/ \E m \in MemberIds, type \in AdminTypes : AddMember(m, type)
    \/ \E m \in MemberIds, type \in AdminTypes : UpdateMember(m, type)
    \/ \E m \in MemberIds : DeleteMember(m)
    \/ \E b \in SmallShelf : AddBook(b)
    \/ \E b \in SmallShelf : UpdateBook(b)
    \/ \E b \in SmallShelf : DeleteBook(b)
    \/ \E b \in SmallShelf, status \in BookStatuses : UpdateAvailability(b, status)
SpecAdmin == InitAdmin /\ [][NextAdmin]_vars

\* SpecFee: DataHelper.calculate_late_fee called by itself, for loans issued
\* at a clock instant and returned at any instant up to MaxFeeDays, in every
\* time zone
InitFee == InitStore(SmallShelf, {BookRow("available")}, QuotaRegister,
                     {StandardMember}, TzOffsets)
NextFee == \/ \E issue_date \in ClockInstants, return_date \in FeeInstants \cup {NULL} :
                 CalculateLateFee(issue_date, return_date)
           \/ AdvanceClock
SpecFee == InitFee /\ [][NextFee]_vars

\* SpecGrace: the member in good standing holds a loan made at instant 0; the
\* operator is at work on the last day an overdue loan may be renewed, on the
\* last day of the period renewed then, and on the day after
GraceDays == {0, BORROWING_PERIOD_DAYS + RENEWAL_GRACE_DAYS,
              BORROWING_PERIOD_DAYS + RENEWAL_GRACE_DAYS + BORROWING_PERIOD_DAYS,
              BORROWING_PERIOD_DAYS + RENEWAL_GRACE_DAYS + BORROWING_PERIOD_DAYS + 1}
GraceInstants == {d * TicksPerDay + p : d \in GraceDays, p \in Phases}
InitGrace == InitRenew /\ member_limits[1].member_status = "active"
AdvanceGrace == AdvanceTo(GraceInstants)
NextGrace == Calls(SmallShelf, QuotaRegister, Cardinality(SmallShelf), {0}, {0})
                \/ AdvanceGrace
SpecGrace == InitGrace /\ [][NextGrace]_vars

\* SpecDays: two books and one member in every time zone, the operator at
\* work on two days, renew_book being called with every value of days and any
\* of its statements failing
NextDays == Calls(SmallShelf, QuotaRegister, Cardinality(SmallShelf),
                  RenewFaults, RenewDays)
               \/ Advance
SpecDays == InitClock /\ [][NextDays]_vars

\* SpecDesk: the circulation desk: two books, both 'available', and two
\* members in good standing; loans, returns and renewals, any statement of
\* which may fail, interleaved with delete_book and delete_member, on one day
InitDesk == InitStore(SmallShelf, {BookRow("available")}, MemberIds,
                      {StandardMember}, {0})
NextDesk ==
    \/ Calls(SmallShelf, MemberIds, MaxTxns, IssueFaults, {0})
    \/ \E b \in SmallShelf : DeleteBook(b)
    \/ \E m \in MemberIds : DeleteMember(m)
SpecDesk == InitDesk /\ [][NextDesk]_vars

\* SpecLegacy: the legacy backend by itself, from the empty database that
\* library_db.py creates, on a UTC deployment, the operator at work on two days
InitLegacy == InitStore(SmallShelf, {BookRow("available")}, QuotaRegister,
                        {StandardMember}, {0})
NextLegacy ==
    \/ \E quantity \in Quantities : DbAddBook(quantity)
    \/ \E b \in LegacyBookIds, quantity \in Quantities : DbUpdateBook(b, quantity)
    \/ \E u \in LegacyUserIds, b \in LegacyBookIds : BorrowBook(u, b)
    \/ \E t \in 1..(MaxLegacyTxns + 1) : DbReturnBook(t)
    \/ Advance
SpecLegacy == InitLegacy /\ [][NextLegacy]_vars

-----------------------------------------------------------------------------
(* Vocabulary of the properties *)

Tables == <<books, members, member_limits, transactions>>

\* a step is identified by the call it leaves in last
IssueStep(b, m) ==
    last'.op = "issue_book" /\ last'.book_id = b /\ last'.member_id = m

ReturnStep(b, m) ==
    last'.op = "return_book" /\ last'.book_id = b /\ last'.member_id = m

RenewStep(t) == last'.op = "renew_book" /\ last'.transaction_id = t

IssuedTo(m) == {i \in IssuedTxns(transactions) : transactions[i].member_id = m}
IssuedOf(b) == {i \in IssuedTxns(transactions) : transactions[i].book_id = b}

\* a member's counters as a reader sees them, a missing quota record reading
\* as the schema's defaults
CurrentIssues(m) ==
    IF member_limits[m].row THEN member_limits[m].current_issues ELSE 0
TotalIssued(m) ==
    IF member_limits[m].row THEN member_limits[m].total_issued ELSE 0
MaxBooks(m) ==
    IF member_limits[m].row THEN member_limits[m].max_books ELSE DEFAULT_MAX_BOOKS
QuotaStatus(m) ==
    IF member_limits[m].row THEN member_limits[m].member_status ELSE "active"

\* what the caller of the last call received: issue_book and renew_book return
\* a bool, return_book returns the pair (success, late_fee)
ReturnValue(call) ==
    IF call.op = "return_book" THEN <<call.ok, call.late_fee>> ELSE <<call.ok>>

\* the failure reason of a failed call, by the return statement it left through
FailureReason(call) ==
    CASE call.exit \in {"book_not_found", "book_not_available"} -> "BookUnavailable"
      [] call.exit = "member_not_found" -> "MemberNotFound"
      [] call.exit = "member_not_active" /\ call.op = "issue_book" -> "MemberNotActive"
      [] call.exit = "member_not_active" /\ call.op = "renew_book" -> "MemberSuspended"
      [] call.exit = "limit_reached" -> "QuotaExceeded"
      [] call.exit = "has_overdue" -> "HasOverdueBooks"
      [] call.exit = "no_active_transaction" /\ call.op = "return_book"
            -> "NoActiveTransaction"
      [] call.exit = "no_active_transaction" /\ call.op = "renew_book" -> "NotRenewable"
      [] call.exit = "too_overdue" -> "TooOverdueToRenew"
      [] call.exit = "sqlite_error" -> "PersistenceFailure"
      [] OTHER -> ""

\* the calendar day (UTC) of an instant
DayOf(t) == t \div TicksPerDay

\* the member holds a loan whose period (from its issue or its last renewal)
\* started more than BORROWING_PERIOD_DAYS calendar days before today, the
\* days being read off the UTC calendar
HasOverdueLoan(m) ==
    \E i \in IssuedTo(m) : DayOf(loan_start[i]) + BORROWING_PERIOD_DAYS < DayOf(now)

\* the same, the days being read off the deployment's local calendar
HasOverdueLoanLocally(m) ==
    \E i \in IssuedTo(m) :
        DayOf(loan_start[i] + tz) + BORROWING_PERIOD_DAYS < DayOf(now + tz)

-----------------------------------------------------------------------------
\* C1: after any sequence of issue_book and return_book calls, succeeding or
\* failing, every book has at most one transaction with status 'issued'.
C1_AtMostOneIssuedPerBook ==
    \A b \in BookIds : Cardinality(IssuedOf(b)) <= 1

\* a book returned by one member and on loan again to another
C1_Witness ==
    \E i, j \in DOMAIN transactions :
        /\ i < j
        /\ transactions[i].book_id = transactions[j].book_id
        /\ transactions[i].member_id # transactions[j].member_id
        /\ transactions[i].status = "returned"
        /\ transactions[j].status = "issued"

\* C2: issue_book fails and creates no transaction whenever the book does not
\* exist or its availability_status is not 'available', whatever the member.
C2_UnavailableBookRefused ==
    [][\A b \in BookIds, m \in MemberIds :
          (IssueStep(b, m)
             /\ (~books[b].row \/ books[b].availability_status # "available"))
          => (~last'.ok /\ transactions' = transactions)]_vars

\* a member in good standing was refused a book that is out on loan
C2_Witness ==
    /\ last.op = "issue_book"
    /\ last.exit = "book_not_available"
    /\ books[last.book_id].availability_status = "issued"
    /\ members[last.member_id].row /\ members[last.member_id].is_active = 1
    /\ QuotaStatus(last.member_id) = "active"
    /\ CurrentIssues(last.member_id) = 0

\* C3: quota conservation: after N successful issue_book and M successful
\* return_book calls for a member, its quota record has current_issues = N - M
\* = the number of its 'issued' transactions, total_issued = N and
\* total_returned = M.
C3_QuotaConservation ==
    \A m \in MemberIds :
        member_limits[m].row =>
            /\ member_limits[m].current_issues
                  = calls_ok[m].issued - calls_ok[m].returned
            /\ member_limits[m].current_issues = Cardinality(IssuedTo(m))
            /\ member_limits[m].total_issued = calls_ok[m].issued
            /\ member_limits[m].total_returned = calls_ok[m].returned

\* a member after two issues and one return
C3_Witness ==
    \E m \in MemberIds :
        /\ calls_ok[m].issued = 2
        /\ calls_ok[m].returned = 1
        /\ member_limits[m].row

\* C4: every member whose quota status is 'active' has
\* 0 <= current_issues <= max_books.
C4_ActiveQuotaWithinLimit ==
    \A m \in MemberIds :
        (member_limits[m].row /\ member_limits[m].member_status = "active") =>
            /\ 0 <= member_limits[m].current_issues
            /\ member_limits[m].current_issues <= member_limits[m].max_books

\* a member whose quota is full, with a book still on the shelf
C4_Witness ==
    \E m \in MemberIds, b \in BookIds :
        /\ member_limits[m].row
        /\ member_limits[m].member_status = "active"
        /\ member_limits[m].current_issues = member_limits[m].max_books
        /\ books[b].row /\ books[b].availability_status = "available"

\* C5: issue_book fails whenever the member's current_issues >= max_books, and
\* the quota is the reason when the book is available and the member eligible.
C5_FullQuotaRefused ==
    [][\A b \in BookIds, m \in MemberIds :
          (IssueStep(b, m) /\ member_limits[m].row
             /\ member_limits[m].current_issues >= member_limits[m].max_books)
          => /\ ~last'.ok
             /\ UNCHANGED Tables
             /\ (/\ books[b].row /\ books[b].availability_status = "available"
                 /\ members[m].row /\ members[m].is_active = 1
                 /\ member_limits[m].member_status = "active")
                => last'.exit = "limit_reached"]_vars

\* a member with max_books = 3 and three loans was refused a fourth book that
\* is available
C5_Witness ==
    /\ last.op = "issue_book"
    /\ last.exit = "limit_reached"
    /\ member_limits[last.member_id].max_books = 3
    /\ Cardinality(IssuedTo(last.member_id)) = 3
    /\ books[last.book_id].availability_status = "available"

\* C6: issue_book fails (HasOverdueBooks) whenever the member has at least one
\* 'issued' transaction with issue_date + BORROWING_PERIOD_DAYS earlier than
\* today, and this check does not reject a member who has no such transaction.
\* Stated so that it does not depend on the calendar days are read in: a
\* member with a loan overdue on both the UTC and the local calendar is
\* refused, and a member refused for overdue books has a loan overdue on at
\* least one of them.
C6_OverdueCheck ==
    [][\A b \in BookIds, m \in MemberIds :
          IssueStep(b, m) =>
             /\ (HasOverdueLoan(m) /\ HasOverdueLoanLocally(m)) => ~last'.ok
             /\ (last'.exit = "has_overdue")
                => (HasOverdueLoan(m) \/ HasOverdueLoanLocally(m))]_vars

\* C7: issue_book fails and creates no transaction when the member does not
\* exist, has is_active = 0, or has a quota status other than 'active',
\* however far current_issues is below max_books.
C7_IneligibleMemberRefused ==
    [][\A b \in BookIds, m \in MemberIds :
          (IssueStep(b, m)
             /\ (\/ ~members[m].row
                 \/ members[m].is_active = 0
                 \/ QuotaStatus(m) # "active"))
          => (~last'.ok /\ transactions' = transactions)]_vars

\* a member who is deactivated or not in good standing, with an empty quota,
\* was refused a book that is available
C7_Witness ==
    /\ last.op = "issue_book"
    /\ ~last.ok
    /\ books[last.book_id].row
    /\ books[last.book_id].availability_status = "available"
    /\ members[last.member_id].row
    /\ \/ members[last.member_id].is_active = 0
       \/ QuotaStatus(last.member_id) \in {"suspended", "blocked", "expired"}
    /\ CurrentIssues(last.member_id) = 0
    /\ MaxBooks(last.member_id) = 3

\* C8: when all five preconditions hold (book exists and is available, member
\* exists and is active, quota status 'active', current_issues < max_books, no
\* 'issued' transaction of the member past due) and no store write fails,
\* issue_book succeeds and its effect is exactly: one new transaction for
\* (book_id, member_id) with status 'issued', issue_date = now, no return_date
\* and late_fee 0; the book's availability_status becomes 'issued'; the
\* member's current_issues and total_issued each increase by 1; nothing else
\* changes.
C8_IssueEffect ==
    [][\A b \in BookIds, m \in MemberIds :
          (/\ IssueStep(b, m)
           /\ last'.exit # "sqlite_error"
           /\ books[b].row /\ books[b].availability_status = "available"
           /\ members[m].row /\ members[m].is_active = 1
           /\ QuotaStatus(m) = "active"
           /\ CurrentIssues(m) < MaxBooks(m)
           /\ \A i \in IssuedTo(m) :
                 ~(DayOf(transactions[i].issue_date) + BORROWING_PERIOD_DAYS
                      < DayOf(now)))
          => /\ last'.ok
             /\ transactions' = Append(transactions,
                   [book_id |-> b, member_id |-> m, issue_date |-> now,
                    return_date |-> NULL, status |-> "issued", late_fee |-> 0])
             /\ books' = [books EXCEPT ![b].availability_status = "issued"]
             /\ members' = members
             /\ member_limits'[m].row
             /\ member_limits'[m] =
                   [member_limits'[m] EXCEPT
                       !.max_books = MaxBooks(m),
                       !.member_status = QuotaStatus(m),
                       !.current_issues = CurrentIssues(m) + 1,
                       !.total_issued = TotalIssued(m) + 1]
             /\ member_limits[m].row =>
                   /\ member_limits'[m].total_returned = member_limits[m].total_returned
                   /\ member_limits'[m].late_returns = member_limits[m].late_returns
                   /\ member_limits'[m].fine_balance = member_limits[m].fine_balance
             /\ \A o \in MemberIds \ {m} : member_limits'[o] = member_limits[o]]_vars

\* a member holding one loan has just been issued a second book
C8_Witness ==
    /\ last.op = "issue_book"
    /\ last.ok
    /\ Len(transactions) = 2
    /\ transactions[2].status = "issued"
    /\ transactions[2].book_id = last.book_id
    /\ transactions[1].status = "issued"
    /\ transactions[1].member_id = last.member_id
    /\ books[last.book_id].availability_status = "issued"
    /\ CurrentIssues(last.member_id) = 2

\* C9: all-or-nothing: whenever issue_book, return_book or renew_book reports
\* failure, for a violated precondition or because any one of its store writes
\* fails, the books, member, member quota and transaction tables are exactly as
\* they were before the call.
C9_AllOrNothing ==
    [][(last'.op \in {"issue_book", "return_book", "renew_book"} /\ ~last'.ok)
          => UNCHANGED Tables]_vars

\* a return failed in the store after its first writes; the loan is still out
C9_Witness ==
    /\ last.op = "return_book"
    /\ last.exit = "sqlite_error"
    /\ last.transaction_id \in IssuedTxns(transactions)
    /\ books[last.book_id].availability_status = "issued"
    /\ CurrentIssues(last.member_id) >= 1

\* C10: a successful return_book of a loan with d whole elapsed days returns
\* late_fee = max(0, d - BORROWING_PERIOD_DAYS) * DAILY_LATE_FEE, stores that
\* fee on the transaction (now 'returned'), sets the book 'available',
\* decrements current_issues (floored at 0), increments total_returned, and,
\* only when the fee is > 0, increases late_returns by 1 and fine_balance by
\* the fee.  Stated for loans whose issue_date is the instant they started.
C10_ReturnFee ==
    [][\A b \in BookIds, m \in MemberIds :
          (/\ ReturnStep(b, m)
           /\ last'.ok
           /\ transactions[last'.transaction_id].issue_date
                 = loan_start[last'.transaction_id])
          => LET t == last'.transaction_id
                 d == (now - loan_start[t]) \div TicksPerDay
                 fee == Max(0, d - BORROWING_PERIOD_DAYS) * DAILY_LATE_FEE
             IN  /\ last'.late_fee = fee
                 /\ transactions'[t].late_fee = fee
                 /\ transactions'[t].status = "returned"
                 /\ books'[b].availability_status = "available"
                 /\ member_limits'[m].current_issues
                       = Max(0, member_limits[m].current_issues - 1)
                 /\ member_limits'[m].total_returned
                       = member_limits[m].total_returned + 1
                 /\ member_limits'[m].late_returns
                       = member_limits[m].late_returns + (IF fee > 0 THEN 1 ELSE 0)
                 /\ member_limits'[m].fine_balance
                       = member_limits[m].fine_balance + fee]_vars

\* C11: return_book(book_id, member_id) fails, returning (False, 0.0), and
\* changes nothing when no transaction with status 'issued' exists for that
\* exact pair: the book is issued to a different member, was never issued, or
\* has already been returned; a second return of the same loan never
\* double-counts total_returned, late_returns or fine_balance.
C11_NoActiveTransaction ==
    [][\A b \in BookIds, m \in MemberIds :
          (ReturnStep(b, m)
             /\ ~\E i \in DOMAIN transactions :
                    /\ transactions[i].book_id = b
                    /\ transactions[i].member_id = m
                    /\ transactions[i].status = "issued")
          => /\ ~last'.ok
             /\ last'.late_fee = 0
             /\ UNCHANGED Tables]_vars

\* a loan returned late was returned a second time: the call failed and the
\* loan is counted once
C11_Witness ==
    /\ last.op = "return_book"
    /\ last.exit = "no_active_transaction"
    /\ \E i \in DOMAIN transactions :
          /\ transactions[i].book_id = last.book_id
          /\ transactions[i].member_id = last.member_id
          /\ transactions[i].status = "returned"
          /\ transactions[i].late_fee > 0
    /\ member_limits[last.member_id].total_returned = 1
    /\ member_limits[last.member_id].late_returns = 1

\* C12: transaction lifecycle: every transaction is created with status
\* 'issued', moves to 'returned' at most once, and 'returned' is terminal: no
\* issue_book, return_book or renew_book call changes a returned transaction's
\* status, issue_date, return_date or late_fee; return_date and late_fee are
\* written only by the transition to 'returned'.
C12_TransactionLifecycle ==
    [][/\ Len(transactions') >= Len(transactions)
       /\ \A i \in DOMAIN transactions' :
             IF i \in DOMAIN transactions
             THEN /\ transactions'[i].book_id = transactions[i].book_id
                  /\ transactions'[i].member_id = transactions[i].member_id
                  /\ transactions[i].status = "returned"
                        => transactions'[i] = transactions[i]
                  /\ (\/ transactions'[i].status # transactions[i].status
                      \/ transactions'[i].return_date # transactions[i].return_date
                      \/ transactions'[i].late_fee # transactions[i].late_fee)
                     => /\ transactions[i].status = "issued"
                        /\ transactions'[i].status = "returned"
                        /\ last'.op = "return_book"
             ELSE /\ transactions'[i].status = "issued"
                  /\ transactions'[i].return_date = NULL
                  /\ transactions'[i].late_fee = 0
                  /\ last'.op = "issue_book"]_vars

\* a renewal was asked for a loan already returned, on a later day, and
\* refused
C12_Witness ==
    /\ last.op = "renew_book"
    /\ ~last.ok
    /\ last.transaction_id \in DOMAIN transactions
    /\ transactions[last.transaction_id].status = "returned"
    /\ transactions[last.transaction_id].issue_date < now

\* the whole days elapsed between the two dates of a calculate_late_fee call
ElapsedDays(call) == (call.return_date - call.issue_date) \div TicksPerDay

\* C13: calculate_late_fee is 0 for every elapsed whole-day count d <=
\* BORROWING_PERIOD_DAYS (14) and (d - 14) * DAILY_LATE_FEE for d > 14, with no
\* cap; it is monotonically non-decreasing in d, with fee(15) = 0.50 and
\* fee(21) = 3.50 (in cents: 50 and 350).
C13_LateFee ==
    [][last'.op = "calculate_late_fee" =>
          LET d == ElapsedDays(last')
          IN  /\ d <= 14 => last'.late_fee = 0
              /\ d > 14 => last'.late_fee = (d - 14) * DAILY_LATE_FEE
              /\ d = 15 => last'.late_fee = 50
              /\ d = 21 => last'.late_fee = 350
              /\ (last.op = "calculate_late_fee" /\ ElapsedDays(last) <= d)
                 => last.late_fee <= last'.late_fee]_vars

\* the fee was asked for a loan of 21 whole days
C13_Witness ==
    /\ last.op = "calculate_late_fee"
    /\ ElapsedDays(last) = 21
    /\ last.late_fee = 350

\* C14: a successful renew_book(transaction_id) overwrites only that
\* transaction's issue_date with now, as renew_book reads the clock, so that
\* the days elapsed computed from it are 0: it creates no transaction, leaves
\* the transaction's status 'issued', leaves every book's availability_status
\* unchanged, and leaves the member's current_issues, total_issued,
\* total_returned, late_returns and fine_balance unchanged.
C14_RenewEffect ==
    [][\A t \in DOMAIN transactions :
          (RenewStep(t) /\ last'.ok)
          => /\ transactions' = [transactions EXCEPT ![t].issue_date = LocalNow]
             /\ (LocalNow - transactions'[t].issue_date) \div TicksPerDay = 0
             /\ transactions'[t].status = "issued"
             /\ books' = books
             /\ members' = members
             /\ member_limits' = member_limits]_vars

\* one of a member's two loans was renewed on a later day
C14_Witness ==
    /\ last.op = "renew_book"
    /\ last.ok
    /\ Len(transactions) = 2
    /\ \A i \in DOMAIN transactions : transactions[i].status = "issued"
    /\ transactions[last.transaction_id].issue_date = LocalNow
    /\ \E i \in DOMAIN transactions : transactions[i].issue_date < LocalNow - TicksPerDay
    /\ CurrentIssues(transactions[last.transaction_id].member_id) = 2

\* C15: renew_book fails (TooOverdueToRenew) and leaves issue_date unchanged
\* when the whole days elapsed since issue_date exceed BORROWING_PERIOD_DAYS +
\* 7 (21), and a member in good standing is not refused at exactly 21 days or
\* fewer.  Stated for loans whose issue_date is the instant they started.
C15_RenewalGrace ==
    [][\A t \in DOMAIN transactions :
          (/\ RenewStep(t)
           /\ transactions[t].status = "issued"
           /\ transactions[t].issue_date = loan_start[t])
          => LET d == (now - transactions[t].issue_date) \div TicksPerDay
                 m == transactions[t].member_id
             IN  /\ d > BORROWING_PERIOD_DAYS + 7
                    => (~last'.ok /\ transactions' = transactions)
                 /\ (/\ d <= BORROWING_PERIOD_DAYS + 7
                     /\ members[m].row /\ members[m].is_active = 1
                     /\ QuotaStatus(m) = "active")
                    => last'.ok]_vars

C17_DistinguishableFailures ==
    [][(/\ last'.op \in {"issue_book", "return_book", "renew_book"}
        /\ last.op = last'.op
        /\ ~last.ok /\ ~last'.ok
        /\ FailureReason(last) # FailureReason(last'))
       => ReturnValue(last) # ReturnValue(last')]_vars

\* C18: when a member that has no quota (member_limits) record is first
\* referenced by issue_book, the record materialized has max_books equal to the
\* type default of the member's member_type (Student 3, Faculty 10, Staff 5,
\* Senior Citizen 5, General 3, Premium 15; 3 for unknown types), the value
\* add_member would have assigned.
C18_DefaultQuotaByType ==
    [][\A b \in BookIds, m \in MemberIds :
          (/\ IssueStep(b, m)
           /\ last'.ok
           /\ members[m].row
           /\ ~member_limits[m].row)
          => /\ member_limits'[m].row
             /\ member_limits'[m].max_books
                   = DefaultBookLimit(members[m].member_type)]_vars

\* C19: a member's max_books is fixed when its quota record is created:
\* update_member changing member_type, and every issue_book, return_book and
\* renew_book, leave the existing quota record's max_books unchanged.
C19_MaxBooksFixed ==
    [][\A m \in MemberIds :
          (/\ member_limits[m].row
           /\ last'.op \in {"update_member", "issue_book", "return_book",
                            "renew_book"})
          => /\ member_limits'[m].row
             /\ member_limits'[m].max_books = member_limits[m].max_books]_vars

\* a member registered as a Student has just been made Faculty, holding a loan
C19_Witness ==
    /\ last.op = "update_member"
    /\ last.ok
    /\ members[last.member_id].member_type = "Faculty"
    /\ member_limits[last.member_id].max_books = DefaultBookLimit("Student")
    /\ DefaultBookLimit("Student") # DefaultBookLimit("Faculty")
    /\ IssuedTo(last.member_id) # {}

\* C20: among all public operations of the Book, Member and Transaction
\* models, only Transaction.issue_book and Transaction.return_book change an
\* existing book's availability_status or a member's quota counters
\* (current_issues, total_issued, total_returned, late_returns, fine_balance).
C20_SoleMutator ==
    [][last'.op \notin {"issue_book", "return_book"} =>
          /\ \A b \in BookIds :
                (books[b].row /\ books'[b].row)
                => books'[b].availability_status = books[b].availability_status
          /\ \A m \in MemberIds :
                (member_limits[m].row /\ member_limits'[m].row)
                => /\ member_limits'[m].current_issues = member_limits[m].current_issues
                   /\ member_limits'[m].total_issued = member_limits[m].total_issued
                   /\ member_limits'[m].total_returned = member_limits[m].total_returned
                   /\ member_limits'[m].late_returns = member_limits[m].late_returns
                   /\ member_limits'[m].fine_balance = member_limits[m].fine_balance]_vars

\* C21: delete_member refuses to deactivate a member that has any transaction
\* with status 'issued' and leaves the store as it was; consequently, in every
\* state reached by add_member, delete_member, issue_book, return_book and
\* renew_book, every 'issued' transaction belongs to a member with
\* is_active = 1.
C21_BorrowersAreActive ==
    /\ [](\A i \in IssuedTxns(transactions) :
            /\ members[transactions[i].member_id].row
            /\ members[transactions[i].member_id].is_active = 1)
    /\ [][\A m \in MemberIds :
            (last'.op = "delete_member" /\ last'.member_id = m /\ IssuedTo(m) # {})
            => (~last'.ok /\ UNCHANGED Tables)]_vars

\* the deactivation of a member who holds a loan was refused; the member is
\* still active
C21_Witness ==
    /\ last.op = "delete_member"
    /\ ~last.ok
    /\ IssuedTo(last.member_id) # {}
    /\ members[last.member_id].is_active = 1

\* C22: delete_book(book_id) removes the book and returns True exactly when the
\* book exists and is not currently issued (has no transaction with status
\* 'issued'); in particular a book whose loans have all been returned can be
\* deleted.
C22_DeleteBook ==
    [][\A b \in BookIds :
          (last'.op = "delete_book" /\ last'.book_id = b)
          => /\ last'.ok <=> (books[b].row /\ IssuedOf(b) = {})
             /\ last'.ok => books' = [books EXCEPT ![b] = NoRow]
             /\ ~last'.ok => books' = books]_vars

\* C23: legacy backend: borrow_book(user, book) succeeds only when the book
\* exists with Available > 0 and then decrements Available by 1; a return_book
\* of that transaction that follows it sets the transaction's ReturnDate and
\* restores Available to its value before the borrow.
C23_BorrowReturnRoundTrip ==
    [][/\ (last'.op = "borrow_book" /\ last'.ok)
          => /\ last'.book_id \in DOMAIN Books
             /\ Books[last'.book_id].Available > 0
             /\ Books'[last'.book_id].Available = Books[last'.book_id].Available - 1
             /\ Books'[last'.book_id].Quantity = Books[last'.book_id].Quantity
       /\ (/\ last.op = "borrow_book" /\ last.ok
           /\ last'.op = "db_operations.return_book"
           /\ last'.transaction_id = last.transaction_id)
          => /\ last'.ok
             /\ Transactions'[last.transaction_id].ReturnDate = Today
             /\ Transactions'[last.transaction_id].ReturnDate # NULL
             /\ Books'[last.book_id].Available = last.available]_vars

\* the only loan of the database, of a book with two copies, has been
\* returned: the book reads two available copies again
C23_Witness ==
    /\ last.op = "db_operations.return_book"
    /\ last.ok
    /\ Len(Transactions) = 1
    /\ Transactions[1].ReturnDate # NULL
    /\ last.available = 1
    /\ Books[last.book_id].Quantity = 2
    /\ Books[last.book_id].Available = 2

\* C30: legacy backend: after any sequence of add_book, update_book,
\* borrow_book and return_book calls, return_book called more than once on one
\* transaction id included, every book satisfies 0 <= Available <= Quantity,
\* and Quantity - Available equals the number of that book's transactions
\* with no ReturnDate.
C30_LegacyStock ==
    \A b \in DOMAIN Books :
        /\ 0 <= Books[b].Available
        /\ Books[b].Available <= Books[b].Quantity
        /\ Books[b].Quantity - Books[b].Available
              = Cardinality({t \in DOMAIN Transactions :
                                /\ Transactions[t].BookID = b
                                /\ Transactions[t].ReturnDate = NULL})

\* C24: after any sequence of issue_book, return_book, renew_book, delete_book
\* and delete_member starting from books that are all 'available', a book's
\* availability_status is 'issued' if and only if exactly one transaction
\* with status 'issued' exists for it, and is 'available' otherwise.
C24_StatusMatchesLoans ==
    \A b \in BookIds :
        books[b].row =>
            /\ books[b].availability_status = "issued"
                  <=> Cardinality(IssuedOf(b)) = 1
            /\ books[b].availability_status # "issued"
                  => books[b].availability_status = "available"

\* a book that came back from one member is out with the other, and the
\* deletion of it has just been refused
C24_Witness ==
    /\ last.op = "delete_book"
    /\ ~last.ok
    /\ books[last.book_id].row
    /\ books[last.book_id].availability_status = "issued"
    /\ \E i, j \in DOMAIN transactions :
          /\ transactions[i].book_id = last.book_id
          /\ transactions[j].book_id = last.book_id
          /\ transactions[i].status = "returned"
          /\ transactions[j].status = "issued"
          /\ transactions[i].member_id # transactions[j].member_id

\* a member's 'returned' transactions, and the sum of late_fee over a set of
\* transactions
ReturnedBy(m) ==
    {i \in DOMAIN transactions :
        transactions[i].member_id = m /\ transactions[i].status = "returned"}

RECURSIVE SumLateFees(_)
SumLateFees(S) ==
    IF S = {} THEN 0
    ELSE LET i == CHOOSE x \in S : TRUE
         IN  transactions[i].late_fee + SumLateFees(S \ {i})

FineBalance(m) ==
    IF member_limits[m].row THEN member_limits[m].fine_balance ELSE 0
LateReturns(m) ==
    IF member_limits[m].row THEN member_limits[m].late_returns ELSE 0

\* C25: in every reachable state, each member's fine_balance equals the sum of
\* late_fee over that member's 'returned' transactions and late_returns equals
\* the number of those with late_fee > 0; fine_balance and late_returns never
\* decrease.
C25_FineLedger ==
    /\ [](\A m \in MemberIds :
            /\ FineBalance(m) = SumLateFees(ReturnedBy(m))
            /\ LateReturns(m)
                  = Cardinality({i \in ReturnedBy(m) : transactions[i].late_fee > 0}))
    /\ [][\A m \in MemberIds :
            /\ FineBalance(m)' >= FineBalance(m)
            /\ LateReturns(m)' >= LateReturns(m)]_vars

\* a member has returned one loan in time and one late
C25_Witness ==
    \E m \in MemberIds :
        /\ Cardinality(ReturnedBy(m)) = 2
        /\ LateReturns(m) = 1
        /\ FineBalance(m) = DAILY_LATE_FEE

\* C26: the overdue notions agree at every instant: an 'issued' transaction is
\* counted as overdue by issue_book's check and listed by get_overdue_books if
\* and only if its elapsed whole days exceed BORROWING_PERIOD_DAYS, that is,
\* if and only if get_issued_books flags it is_overdue and calculate_late_fee
\* for it is > 0; no transaction is listed as overdue with days_overdue = 0
\* and calculated_late_fee = 0.
C26_OverdueNotionsAgree ==
    /\ \A i \in IssuedTxns(transactions) :
          LET issue_date == transactions[i].issue_date
              counted == SqlOverdue(issue_date, now)
              listed == \E r \in get_overdue_books(Db, now, LocalNow) :
                           r.transaction_id = i
              flagged == \E r \in get_issued_books(Db, LocalNow) :
                            r.transaction_id = i /\ r.is_overdue
              exceeded == calculate_days_between(issue_date, LocalNow)
                             > BORROWING_PERIOD_DAYS
          IN  /\ counted <=> exceeded
              /\ listed <=> exceeded
              /\ exceeded <=> flagged
              /\ flagged <=> calculate_late_fee(issue_date, LocalNow) > 0
    /\ \A r \in get_overdue_books(Db, now, LocalNow) :
          ~(r.days_overdue = 0 /\ r.calculated_late_fee = 0)

\* C27: for every active member, get_member_transaction_summary reports
\* can_issue_more = True if and only if issue_book for that member and some
\* available book would succeed in the same state, and available_slots =
\* max_books - current_issues.
C27_SummaryAgreesWithIssue ==
    \A m \in MemberIds :
        (members[m].row /\ members[m].is_active = 1) =>
            LET summary == get_member_transaction_summary(Db, m, now)
            IN  /\ summary.row
                /\ summary.available_slots = MaxBooks(m) - CurrentIssues(m)
                /\ \A b \in BookIds :
                      (books[b].row /\ books[b].availability_status = "available")
                      => (summary.can_issue_more
                            <=> issue_book(Db, b, m, now, 0).ok)

\* C28: renewal erases accrued lateness: for a loan that is 15 to 21 days old
\* (already overdue), a successful renew_book followed by return_book within
\* BORROWING_PERIOD_DAYS yields late_fee 0 with no change to late_returns or
\* fine_balance, and immediately after the renewal the member is no longer
\* blocked by HasOverdueBooks on account of that loan.  A renewed loan is one
\* whose issue_date reads the local clock at the instant its period started.
C28_RenewalErasesLateness ==
    [][/\ \A b \in BookIds, m \in MemberIds :
             (/\ ReturnStep(b, m)
              /\ last'.ok
              /\ transactions[last'.transaction_id].issue_date
                    = loan_start[last'.transaction_id] + tz
              /\ now - loan_start[last'.transaction_id]
                    <= BORROWING_PERIOD_DAYS * TicksPerDay)
             => /\ last'.late_fee = 0
                /\ transactions'[last'.transaction_id].late_fee = 0
                /\ LateReturns(m)' = LateReturns(m)
                /\ FineBalance(m)' = FineBalance(m)
       /\ \A t \in DOMAIN transactions :
             (/\ RenewStep(t)
              /\ last'.ok
              /\ (now - loan_start[t]) \div TicksPerDay
                    \in (BORROWING_PERIOD_DAYS + 1)
                          ..(BORROWING_PERIOD_DAYS + RENEWAL_GRACE_DAYS))
             => /\ transactions'[t].issue_date = loan_start'[t] + tz
                /\ ~SqlOverdue(transactions'[t].issue_date, now)
                /\ \A b \in BookIds :
                      IssueChecks([Db EXCEPT !.transactions = transactions'], b,
                                  transactions[t].member_id, now) = "has_overdue"
                      => \E i \in IssuedTo(transactions[t].member_id) \ {t} :
                            SqlOverdue(transactions[i].issue_date, now)]_vars

\* the loan made at instant 0 was renewed on day 21, east of UTC, and has been
\* returned on the last day of its new period, free of charge
C28_Witness ==
    /\ last.op = "return_book"
    /\ last.ok
    /\ last.late_fee = 0
    /\ last.transaction_id = 1
    /\ tz > 0
    /\ loan_start[1] = (BORROWING_PERIOD_DAYS + RENEWAL_GRACE_DAYS) * TicksPerDay
    /\ transactions[1].issue_date = loan_start[1] + tz
    /\ now - loan_start[1] = BORROWING_PERIOD_DAYS * TicksPerDay
    /\ FineBalance(last.member_id) = 0
    /\ LateReturns(last.member_id) = 0

\* C29: the result and the resulting state of renew_book(transaction_id, days)
\* do not depend on days: for any two values of days (omitted included), the
\* same starting state gives the same success or failure and the same new
\* issue_date (= now, as renew_book reads the clock), so the loan is always
\* extended by exactly BORROWING_PERIOD_DAYS from now.
C29_DaysIgnored ==
    [][\A t \in 1..(Len(transactions) + 1) :
          RenewStep(t) =>
             /\ \A days \in RenewDays,
                   fault \in IF last'.exit = "sqlite_error"
                             THEN RenewFaults \ {0} ELSE {0} :
                   LET r == renew_book(Db, t, days, LocalNow, fault)
                   IN  /\ r.ok = last'.ok
                       /\ r.db.transactions = transactions'
                       /\ r.db.books = books'
                       /\ r.db.members = members'
                       /\ r.db.member_limits = member_limits'
             /\ last'.ok =>
                   /\ transactions'[t].issue_date = LocalNow
                   /\ calculate_late_fee(transactions'[t].issue_date,
                          LocalNow + BORROWING_PERIOD_DAYS * TicksPerDay) = 0
                   /\ calculate_late_fee(transactions'[t].issue_date,
                          LocalNow + (BORROWING_PERIOD_DAYS + 1) * TicksPerDay) > 0]_vars

\* a loan was renewed on day 15 outside UTC, with whatever days: its period
\* starts on day 15 of the local clock
C29_Witness ==
    /\ last.op = "renew_book"
    /\ last.ok
    /\ transactions[last.transaction_id].issue_date = LocalNow
    /\ loan_start[last.transaction_id] = now
    /\ tz # 0
    /\ now = (BORROWING_PERIOD_DAYS + 1) * TicksPerDay

====
